---- MODULE Spec2Model ----
(***************************************************************************)
(* Dependency resolution and graph construction of                         *)
(* backend/services/graph_builder.py: DependencyResolver (node index,      *)
(* required-dependency validation, Kahn topological pass, cycle search,    *)
(* level assignment) and GraphBuilder.build_graph.                         *)
(*                                                                         *)
(* Module identifiers are unique in every input (the invariant of the      *)
(* data model).  The code never inspects an identifier beyond equality,    *)
(* so the i-th module of an input is named Pool[i]; the input order is the *)
(* order of Pool.  Absent is an identifier that no module carries.         *)
(***************************************************************************)
EXTENDS Integers, Sequences, FiniteSets, TLC

\* ------------------------------------------------------------------ bounds
MaxModules == 3      \* modules in one input
MaxRefs == 3         \* dependency references in one input, all modules together
MaxCalls == 2        \* resolve calls observed on one input
MaxGraphRefs == 2    \* dependency references in one input of a GraphBuilder
MaxApiModules == 2   \* module names the REST API is asked about
MaxApiDeps == 1      \* dependency references in one request body
MaxFiles == 3        \* YAML files in the directory given to loader.load_modules
MaxChanges == 2      \* changes of the watched modules directory
MaxTime == 4         \* the last instant of the clock of the watcher
MaxAppModules == 2   \* module names app.py is asked about, besides invalid_module
MaxAppDeps == 1      \* dependencies of one module stored or sent to app.py

Pool == <<"A", "B", "C", "D", "E">>
Absent == "Z"
NoName == ""

\* ModuleStatus values (two of the four suffice for the status filter)
Statuses == {"implemented", "stub"}
Layouts == {"physics", "hierarchical"}

\* ModuleType values (two of the five); "service" is the default of the schema
Types == {"service", "component"}

VARIABLES
    modules,           \* the input list of ModuleSchema records
    nodes,             \* DependencyResolver.nodes: name -> DependencyNode
    pc,                \* position of the resolver: "idle", "kahn", "done"
    in_degree,         \* local of resolve
    queue,             \* local of resolve
    resolution_order,  \* local of resolve
    result,            \* how the last resolve call ended
    calls,             \* number of resolve calls finished on this input
    first,             \* outcome of the first resolve call on this input
    graph,             \* what the last build_graph call produced
    stats,             \* what the last get_statistics call returned
    store,             \* the modules directory: module name -> stored module
    response,          \* the last response of the REST API
    directory,         \* loader: the directory argument, its kind and files
    yaml_files,        \* loader.load_modules: the files still to be read
    loader_modules,    \* loader.load_modules: local modules
    loader_module_names,      \* loader.load_modules: local module_names
    loader,            \* loader.load_modules: "idle", "loop" or how it ended
    mode,              \* watcher.main: "watch" or "single" (--single-run)
    now,               \* watcher: time.time()
    version,           \* watcher: the number of changes made to modules_dir
    pending_changes,   \* ModuleWatcher.pending_changes
    last_change_time,  \* ModuleWatcher.last_change_time
    runner,            \* watcher: the main thread (0) and the thread of each
                       \* change event: its position, wake time, loaded version
    output,            \* watcher: the version diagram.mmd and modules.json show
    last_loaded,       \* watcher: the latest version a regeneration has loaded
    files,             \* app.py: modules/<name>.yaml, name -> dependencies
    module_cache,      \* app.py: _module_cache, name -> dependencies
    modules_loaded,    \* app.py: _modules_loaded
    app_response       \* app.py: the last response

vars == <<modules, nodes, pc, in_degree, queue, resolution_order, result,
          calls, first, graph, stats, store, response,
          directory, yaml_files, loader_modules, loader_module_names, loader,
          mode, now, version, pending_changes, last_change_time, runner,
          output, last_loaded, files, module_cache, modules_loaded,
          app_response>>

appVars == <<files, module_cache, modules_loaded, app_response>>

loaderVars == <<directory, yaml_files, loader_modules, loader_module_names, loader>>

\* the state of the components other than the graph builder and its API
watcherVars == <<mode, now, version, pending_changes, last_change_time,
                 runner, output, last_loaded>>

extVars == <<loaderVars, watcherVars, appVars>>

apiVars == <<store, response>>

resolverVars == <<nodes, pc, in_degree, queue, resolution_order, result,
                  calls, first>>

\* ------------------------------------------------------------ small helpers
Range(s) == {s[i] : i \in 1..Len(s)}

Max(S) == CHOOSE x \in S : \A y \in S : y <= x

IndexOf(s, x) == CHOOSE i \in 1..Len(s) : s[i] = x /\ \A j \in 1..(i - 1) : s[j] # x

Perms(S) == {p \in [1..Cardinality(S) -> S] :
                \A i, j \in 1..Cardinality(S) : i # j => p[i] # p[j]}

\* -------------------------------------------------------------- the inputs
Names(n) == {Pool[i] : i \in 1..n}

\* A reference list of an input: (owner, target, required) triples with the
\* owners in input order.
RefLists(n, maxRefs) ==
    UNION {{r \in [1..k -> [owner : 1..n,
                            name : Names(n) \cup {Absent},
                            required : BOOLEAN]] :
              \A i \in 1..(k - 1) : r[i].owner <= r[i + 1].owner} :
           k \in 0..maxRefs}

DependencySchema(ref) == [name |-> ref.name, required |-> ref.required]

DependenciesOf(refs, i) ==
    LET Mine(r) == r.owner = i
        mine == SelectSeq(refs, Mine)
    IN [j \in 1..Len(mine) |-> DependencySchema(mine[j])]

ModuleSchema(n, refs, status) ==
    [i \in 1..n |-> [name |-> Pool[i],
                     status |-> status[i],
                     type |-> "service",
                     dependencies |-> DependenciesOf(refs, i)]]

WithTypes(mods, type) == [i \in 1..Len(mods) |-> [mods[i] EXCEPT !.type = type[i]]]

\* ----------------------------------------------------- DependencyResolver
\* the nested loops `for module in modules: for dep in module.dependencies`
RECURSIVE DeclaredRefs(_)
DeclaredRefs(mods) ==
    IF mods = <<>> THEN <<>>
    ELSE LET m == Head(mods)
         IN [j \in 1..Len(m.dependencies) |->
                [from |-> m.name,
                 to |-> m.dependencies[j].name,
                 required |-> m.dependencies[j].required]]
            \o DeclaredRefs(Tail(mods))

\* keys of self.nodes in insertion order
NodeKeys(mods) == [i \in 1..Len(mods) |-> mods[i].name]

DependencyNode(m) ==
    [name |-> m.name,
     status |-> m.status,
     dependencies |-> [j \in 1..Len(m.dependencies) |-> m.dependencies[j].name],
     dependents |-> <<>>,
     level |-> 0]

\* dependents inserted at the front of the list instead of appended
Dependents_Prepend(mods, index, target) ==
    LET Hits(r) == r.to = target /\ r.to \in index
        hits == SelectSeq(DeclaredRefs(mods), Hits)
    IN [j \in 1..Len(hits) |-> hits[Len(hits) + 1 - j].from]

\* _build_nodes, lines 79-83: the dependents list of one node
Dependents(mods, index, target) ==
    LET Hits(r) == r.to = target /\ r.to \in index
        hits == SelectSeq(DeclaredRefs(mods), Hits)
    IN [j \in 1..Len(hits) |-> hits[j].from]

build_nodes(mods) ==
    LET index == Range(NodeKeys(mods))
        firstPass == [nm \in index |->
                        DependencyNode(mods[Max({i \in 1..Len(mods) : mods[i].name = nm})])]
    IN [nm \in index |->
           [firstPass[nm] EXCEPT !.dependents = Dependents(mods, index, nm)]]

NoResponse == [method |-> "none", id |-> NoName, code |-> 0]

NoResult ==
    [kind |-> "none", order |-> <<>>, cycle |-> <<>>,
     dependent |-> NoName, target |-> NoName]

\* a validation that reports the last violation it meets instead of the first
validate_dependencies_Last(mods, nds) ==
    LET Raises(r) == r.required /\ r.to \notin DOMAIN nds
        found == SelectSeq(DeclaredRefs(mods), Raises)
    IN [i \in 1..Len(found) |-> found[Len(found) + 1 - i]]

\* _validate_dependencies: the (module, dep) pairs that raise, in the order
\* the loops meet them; the call raises on the first one
validate_dependencies(mods, nds) ==
    LET all_module_names == DOMAIN nds
        Raises(r) == r.required /\ r.to \notin all_module_names
    IN SelectSeq(DeclaredRefs(mods), Raises)

\* an in-degree that leaves a node's dependency on itself out
\* an in-degree that counts the dependencies that are not in the index too
InDegree_CountAbsent(nds) ==
    [name \in DOMAIN nds |-> Len(nds[name].dependencies)]

\* an in-degree that counts a dependency named twice once
InDegree_Distinct(nds) ==
    [name \in DOMAIN nds |->
        Cardinality(Range(nds[name].dependencies) \cap DOMAIN nds)]

\* an in-degree that leaves out the dependency of a node on itself
InDegree_SkipSelf(nds) ==
    [name \in DOMAIN nds |->
        Cardinality({j \in 1..Len(nds[name].dependencies) :
                        /\ nds[name].dependencies[j] \in DOMAIN nds
                        /\ nds[name].dependencies[j] # name})]

\* resolve, lines 100-103: in-degree counts only existing dependencies
InDegree(nds) ==
    [name \in DOMAIN nds |->
        Cardinality({j \in 1..Len(nds[name].dependencies) :
                        nds[name].dependencies[j] \in DOMAIN nds})]

\* resolve, line 106: the zero-degree names in dict order
SeedQueue(keys, deg) ==
    LET Zero(name) == deg[name] = 0
    IN SelectSeq(keys, Zero)

\* resolve, lines 114-118: the loop over the dependents of the dequeued node
RECURSIVE UpdateDependents(_, _)
UpdateDependents(dependents, k) ==
    IF dependents = <<>> THEN k
    ELSE LET dependent == Head(dependents)
         IN IF dependent \in DOMAIN k.in_degree
            THEN LET deg == k.in_degree[dependent] - 1
                     k1 == [k EXCEPT !.in_degree[dependent] = deg]
                 IN UpdateDependents(Tail(dependents),
                        IF deg = 0
                        THEN [k1 EXCEPT !.queue = Append(k1.queue, dependent)]
                        ELSE k1)
            ELSE UpdateDependents(Tail(dependents), k)

\* an iteration that takes the newest queue entry (pop) instead of the oldest
KahnIteration_Pop(nds, k) ==
    LET current == k.queue[Len(k.queue)]
        k1 == [k EXCEPT !.queue = SubSeq(k.queue, 1, Len(k.queue) - 1),
                        !.resolution_order = Append(k.resolution_order, current)]
    IN UpdateDependents(nds[current].dependents, k1)

\* resolve, lines 109-118: one iteration of `while queue`
KahnIteration(nds, k) ==
    LET current == Head(k.queue)
        k1 == [k EXCEPT !.queue = Tail(k.queue),
                        !.resolution_order = Append(k.resolution_order, current)]
    IN UpdateDependents(nds[current].dependents, k1)

\* resolve, lines 100-118 run to the end of the loop
RECURSIVE KahnRun(_, _)
KahnRun(nds, k) ==
    IF k.queue = <<>> THEN k ELSE KahnRun(nds, KahnIteration(nds, k))

\* a cycle test with the wrong comparison
Unresolved_Greater(nds, order) == Len(order) > Cardinality(DOMAIN nds)

\* resolve, line 121
Unresolved(nds, order) == Len(order) # Cardinality(DOMAIN nds)

KahnStart(mods, nds) ==
    [in_degree |-> InDegree(nds),
     queue |-> SeedQueue(NodeKeys(mods), InDegree(nds)),
     resolution_order |-> <<>>]

\* a cycle report that keeps the whole DFS path, not the part from cycle_start
CyclePath_FromRoot(path, node) == path \o <<node>>

\* _find_cycle, lines 152-153
CyclePath(path, node) ==
    SubSeq(path, IndexOf(path, node), Len(path)) \o <<node>>

\* _find_cycle, lines 149-170; st.cycle = <<>> stands for None
RECURSIVE dfs(_, _, _, _)
RECURSIVE dfsDependencies(_, _, _, _)
dfs(nds, remaining_nodes, node, st) ==
    IF node \in st.rec_stack
    THEN [st EXCEPT !.cycle = CyclePath(st.path, node)]
    ELSE IF node \in st.visited
    THEN st
    ELSE LET entered == [st EXCEPT !.visited = @ \cup {node},
                                   !.rec_stack = @ \cup {node},
                                   !.path = Append(@, node)]
             after == dfsDependencies(nds, remaining_nodes,
                                      nds[node].dependencies, entered)
         IN IF after.cycle # <<>>
            THEN after
            ELSE [after EXCEPT !.rec_stack = @ \ {node},
                               !.path = SubSeq(@, 1, Len(@) - 1)]

dfsDependencies(nds, remaining_nodes, deps, st) ==
    IF deps = <<>> THEN st
    ELSE IF Head(deps) \in remaining_nodes
    THEN LET r == dfs(nds, remaining_nodes, Head(deps), st)
         IN IF r.cycle # <<>>
            THEN r
            ELSE dfsDependencies(nds, remaining_nodes, Tail(deps), r)
    ELSE dfsDependencies(nds, remaining_nodes, Tail(deps), st)

\* _find_cycle, lines 172-178; iteration is the order in which the loop
\* `for node in remaining_nodes` yields the elements of the set
RECURSIVE FindCycleFrom(_, _, _, _)
FindCycleFrom(nds, remaining_nodes, iteration, st) ==
    IF iteration = <<>> THEN iteration
    ELSE IF Head(iteration) \notin st.visited
    THEN LET r == dfs(nds, remaining_nodes, Head(iteration), st)
         IN IF r.cycle # <<>>
            THEN r.cycle
            ELSE FindCycleFrom(nds, remaining_nodes, Tail(iteration), r)
    ELSE FindCycleFrom(nds, remaining_nodes, Tail(iteration), st)

find_cycle(nds, remaining_nodes, iteration) ==
    LET found == FindCycleFrom(nds, remaining_nodes, iteration,
                     [visited |-> {}, rec_stack |-> {}, path |-> <<>>,
                      cycle |-> <<>>])
    IN IF found # <<>> THEN found ELSE iteration    \* Fallback

\* a level without the + 1
NodeLevel_NoIncrement(nds, name) ==
    LET deps == nds[name].dependencies
        existing == {deps[j] : j \in {i \in 1..Len(deps) : deps[i] \in DOMAIN nds}}
    IN IF deps = <<>> THEN 0
       ELSE IF existing = {} THEN -1
       ELSE Max({nds[d].level : d \in existing})

\* a level added to the level the node already carries
NodeLevel_Accumulate(nds, name) ==
    LET deps == nds[name].dependencies
        existing == {deps[j] : j \in {i \in 1..Len(deps) : deps[i] \in DOMAIN nds}}
    IN IF deps = <<>> THEN 0
       ELSE IF existing = {} THEN -1
       ELSE nds[name].level + Max({nds[d].level : d \in existing}) + 1

\* _calculate_levels, lines 183-193: the level one node gets; -1 stands for
\* max() raising on an empty sequence
NodeLevel(nds, name) ==
    LET deps == nds[name].dependencies
        existing == {deps[j] : j \in {i \in 1..Len(deps) : deps[i] \in DOMAIN nds}}
    IN IF deps = <<>> THEN 0
       ELSE IF existing = {} THEN -1
       ELSE Max({nds[d].level : d \in existing}) + 1

\* _calculate_levels, the loop over resolution_order; levels assigned before
\* max() raises stay assigned
RECURSIVE calculate_levels(_, _)
calculate_levels(nds, order) ==
    IF order = <<>> THEN [nodes |-> nds, raised |-> FALSE]
    ELSE LET level == NodeLevel(nds, Head(order))
         IN IF level < 0
            THEN [nodes |-> nds, raised |-> TRUE]
            ELSE calculate_levels([nds EXCEPT ![Head(order)].level = level],
                                  Tail(order))

\* how a resolve call ends
Returned(order) == [NoResult EXCEPT !.kind = "order", !.order = order]
MissingRequired(ref) ==
    [NoResult EXCEPT !.kind = "missing", !.dependent = ref.from, !.target = ref.to]
CircularDependencyError(cycle) == [NoResult EXCEPT !.kind = "cycle", !.cycle = cycle]
MaxOfEmpty == [NoResult EXCEPT !.kind = "max_empty"]

Levels(nds) == [name \in DOMAIN nds |-> nds[name].level]

Outcome(res, nds) == [result |-> res, levels |-> Levels(nds)]

NoOutcome == Outcome(NoResult, <<>>)

\* resolve run from its first line to its end on a resolver of its own, as
\* build_graph uses it (the cycle itself is not kept there)
resolve(mods, nds) ==
    IF validate_dependencies(mods, nds) # <<>>
    THEN [kind |-> "missing", nodes |-> nds]
    ELSE LET k == KahnRun(nds, KahnStart(mods, nds))
         IN IF Unresolved(nds, k.resolution_order)
            THEN [kind |-> "cycle", nodes |-> nds]
            ELSE LET lv == calculate_levels(nds, k.resolution_order)
                 IN [kind |-> IF lv.raised THEN "max_empty" ELSE "order",
                     nodes |-> lv.nodes]

\* ----------------------------------------------------------- GraphBuilder
NoLevel == -1

NoGraph ==
    [kind |-> "none", call |-> "build_graph", layout |-> "physics",
     given |-> FALSE, include_statuses |-> {},
     nodes |-> <<>>, edges |-> <<>>]

\* build_graph, lines 249-254; an empty filter is the same as no filter
FilterModules(mods, include_statuses) ==
    LET Kept(m) == m.status \in include_statuses
    IN IF include_statuses # {} THEN SelectSeq(mods, Kept) ELSE mods

\* nodes that get their level under the physics layout instead
GraphNodes_LayoutInverted(filtered_modules, layout, resolver_nodes) ==
    [i \in 1..Len(filtered_modules) |->
        [id |-> filtered_modules[i].name,
         group |-> filtered_modules[i].status,
         level |-> IF layout = "physics"
                      /\ filtered_modules[i].name \in DOMAIN resolver_nodes
                   THEN resolver_nodes[filtered_modules[i].name].level
                   ELSE NoLevel]]

\* build_graph, lines 268-282
GraphNodes(filtered_modules, layout, resolver_nodes) ==
    [i \in 1..Len(filtered_modules) |->
        [id |-> filtered_modules[i].name,
         group |-> filtered_modules[i].status,
         level |-> IF layout = "hierarchical"
                      /\ filtered_modules[i].name \in DOMAIN resolver_nodes
                   THEN resolver_nodes[filtered_modules[i].name].level
                   ELSE NoLevel]]

\* edges that are dashed when the dependency is required
GraphEdges_DashRequired(filtered_modules) ==
    LET module_names == {filtered_modules[i].name : i \in 1..Len(filtered_modules)}
        Kept(r) == r.to \in module_names
        kept == SelectSeq(DeclaredRefs(filtered_modules), Kept)
    IN [j \in 1..Len(kept) |->
           [from |-> kept[j].from, to |-> kept[j].to,
            dashes |-> kept[j].required]]

\* build_graph, lines 285-303
GraphEdges(filtered_modules) ==
    LET module_names == {filtered_modules[i].name : i \in 1..Len(filtered_modules)}
        Kept(r) == r.to \in module_names
        kept == SelectSeq(DeclaredRefs(filtered_modules), Kept)
    IN [j \in 1..Len(kept) |->
           [from |-> kept[j].from, to |-> kept[j].to,
            dashes |-> ~kept[j].required]]

\* build_graph, lines 261-265: the exceptions of resolve that the call lets
\* through to its caller
Propagates(kind) == kind \notin {"order", "cycle"}

\* a filter that is stored back into self.modules
self_modules_Filtered(mods, include_statuses) ==
    LET Kept(m) == m.status \in include_statuses
    IN IF include_statuses # {} THEN SelectSeq(mods, Kept) ELSE mods

\* build_graph, lines 249-254: self.modules after the call; the filter builds
\* a list of its own and self.modules is not assigned
self_modules(mods, include_statuses) == mods

build_graph(mods, layout, include_statuses) ==
    LET filtered_modules == FilterModules(mods, include_statuses)
        here == [NoGraph EXCEPT !.layout = layout,
                                !.include_statuses = include_statuses]
    IN IF filtered_modules = <<>>
       THEN [here EXCEPT !.kind = "payload"]
       ELSE LET r == resolve(filtered_modules, build_nodes(filtered_modules))
            IN IF Propagates(r.kind)
               THEN [here EXCEPT !.kind = "raised"]
               ELSE [here EXCEPT !.kind = "payload",
                                 !.nodes = GraphNodes(filtered_modules, layout, r.nodes),
                                 !.edges = GraphEdges(filtered_modules)]

\* generate_vis_js_graph, lines 365-379: every node gets the level its
\* resolver node carries, whatever resolve did
VisJsNodes(mods, resolver_nodes) ==
    [i \in 1..Len(mods) |->
        [id |-> mods[i].name,
         group |-> mods[i].status,
         level |-> IF mods[i].name \in DOMAIN resolver_nodes
                   THEN resolver_nodes[mods[i].name].level
                   ELSE NoLevel]]

\* generate_vis_js_graph, lines 382-398
VisJsEdges(mods) ==
    LET module_names == {mods[i].name : i \in 1..Len(mods)}
        Kept(r) == r.to \in module_names
        kept == SelectSeq(DeclaredRefs(mods), Kept)
    IN [j \in 1..Len(kept) |->
           [from |-> kept[j].from, to |-> kept[j].to,
            dashes |-> ~kept[j].required]]

\* generate_vis_js_graph: CircularDependencyError and ValueError are caught
generate_vis_js_graph(mods) ==
    LET r == resolve(mods, build_nodes(mods))
    IN [NoGraph EXCEPT !.kind = "payload",
                       !.call = "generate_vis_js_graph",
                       !.nodes = VisJsNodes(mods, r.nodes),
                       !.edges = VisJsEdges(mods)]

NoStats ==
    [kind |-> "none", total_modules |-> 0, by_status |-> <<>>,
     by_type |-> <<>>, dependency_count |-> 0]

\* a counter that is set to 1 instead of incremented
Bump_Assign(counts, key) ==
    IF key \in DOMAIN counts
    THEN [counts EXCEPT ![key] = 1]
    ELSE counts @@ (key :> 1)

\* defaultdict(int)[key] += 1
Bump(counts, key) ==
    IF key \in DOMAIN counts
    THEN [counts EXCEPT ![key] = @ + 1]
    ELSE counts @@ (key :> 1)

\* get_statistics, lines 332-335: the loop over self.modules
RECURSIVE CountModules(_, _)
CountModules(mods, st) ==
    IF mods = <<>> THEN st
    ELSE LET module == Head(mods)
         IN CountModules(Tail(mods),
                [st EXCEPT !.by_status = Bump(@, module.status),
                           !.by_type = Bump(@, module.type),
                           !.dependency_count = @ + Len(module.dependencies)])

\* get_statistics, lines 325-337
get_statistics(mods) ==
    CountModules(mods, [NoStats EXCEPT !.kind = "stats",
                                       !.total_modules = Len(mods)])

\* ------------------------------------------------------------------ states
Start(mods) ==
    /\ modules = mods
    /\ nodes = build_nodes(mods)
    /\ pc = "idle"
    /\ in_degree = <<>>
    /\ queue = <<>>
    /\ resolution_order = <<>>
    /\ result = NoResult
    /\ calls = 0
    /\ first = NoOutcome
    /\ graph = NoGraph
    /\ stats = NoStats
    /\ store = <<>>
    /\ response = NoResponse

\* loader.load_modules has not been called
NoDirectory == [kind |-> "missing", files |-> <<>>]

LoaderStart(dir) ==
    /\ directory = dir
    /\ yaml_files = <<>>
    /\ loader_modules = <<>>
    /\ loader_module_names = {}
    /\ loader = "idle"

\* ModuleWatcher.__init__ default, in instants of the clock
debounce_delay == 2

\* the threads: the main thread and one per change event
MainThread == 0

Threads == 1..MaxChanges

NoOutput == -1

\* the watcher program before main has built anything
WatcherStart(m) ==
    /\ mode = m
    /\ now = 0
    /\ version = 0
    /\ pending_changes = {}
    /\ last_change_time = 0
    /\ runner = [r \in {MainThread} \cup Threads |->
                    [pc |-> IF r = MainThread THEN "main" ELSE "unborn",
                     wake |-> 0]]
    /\ output = NoOutput
    /\ last_loaded = NoOutput

NoAppResponse ==
    [method |-> "none", name |-> NoName, code |-> 0, renames |-> FALSE,
     kind |-> "none"]

\* app.py imported over the stored modules fs: lines 26-27
AppStart(fs) ==
    /\ files = fs
    /\ module_cache = <<>>
    /\ modules_loaded = FALSE
    /\ app_response = NoAppResponse

\* the components other than the one a specification is about are not used
ExtIdle == LoaderStart(NoDirectory) /\ WatcherStart("watch") /\ AppStart(<<>>)

\* a resolver over any module list; the resolver copies the status of a
\* module and never reads it, so one status stands for all
Init ==
    \E n \in 0..MaxModules :
      \E refs \in RefLists(n, MaxRefs) :
        Start(ModuleSchema(n, refs, [i \in 1..n |-> "implemented"])) /\ ExtIdle

\* a graph builder over any module list with any statuses
InitGraph ==
    \E n \in 0..MaxModules :
      \E refs \in RefLists(n, MaxGraphRefs), status \in [1..n -> Statuses] :
        Start(ModuleSchema(n, refs, status)) /\ ExtIdle

\* the call is over: its locals are gone, its outcome is observed
Finish(res, nds) ==
    /\ pc' = "done"
    /\ result' = res
    /\ nodes' = nds
    /\ in_degree' = <<>>
    /\ queue' = <<>>
    /\ resolution_order' = <<>>
    /\ calls' = calls + 1
    /\ first' = IF calls = 0 THEN Outcome(res, nds) ELSE first
    /\ UNCHANGED <<modules, graph, stats, store, response, extVars>>

CanCall == pc \in {"idle", "done"} /\ calls < MaxCalls

\* resolve, line 97 raising ValueError
RaiseMissing ==
    /\ CanCall
    /\ validate_dependencies(modules, nodes) # <<>>
    /\ Finish(MissingRequired(Head(validate_dependencies(modules, nodes))), nodes)

\* resolve, lines 97-107 when validation passes
ResolveBegin ==
    /\ CanCall
    /\ validate_dependencies(modules, nodes) = <<>>
    /\ LET k == KahnStart(modules, nodes)
       IN /\ in_degree' = k.in_degree
          /\ queue' = k.queue
          /\ resolution_order' = k.resolution_order
    /\ pc' = "kahn"
    /\ result' = NoResult
    /\ UNCHANGED <<modules, nodes, calls, first, graph, stats, store, response, extVars>>

\* resolve, lines 109-118: one iteration of the loop
KahnStep ==
    /\ pc = "kahn"
    /\ queue # <<>>
    /\ LET k == KahnIteration(nodes, [in_degree |-> in_degree, queue |-> queue,
                                      resolution_order |-> resolution_order])
       IN /\ in_degree' = k.in_degree
          /\ queue' = k.queue
          /\ resolution_order' = k.resolution_order
    /\ UNCHANGED <<modules, nodes, pc, result, calls, first, graph, stats,
                   store, response, extVars>>

\* resolve, lines 121-125; the set remaining is iterated in an order that
\* depends on the hashes of its elements
RaiseCycle ==
    /\ pc = "kahn"
    /\ queue = <<>>
    /\ Unresolved(nodes, resolution_order)
    /\ LET remaining == DOMAIN nodes \ Range(resolution_order)
       IN \E iteration \in Perms(remaining) :
            Finish(CircularDependencyError(find_cycle(nodes, remaining, iteration)),
                   nodes)

\* resolve, lines 127-130
ReturnOrder ==
    /\ pc = "kahn"
    /\ queue = <<>>
    /\ ~Unresolved(nodes, resolution_order)
    /\ LET lv == calculate_levels(nodes, resolution_order)
       IN /\ ~lv.raised
          /\ Finish(Returned(resolution_order), lv.nodes)

\* resolve, line 128 when max() in _calculate_levels raises ValueError
RaiseMaxOfEmpty ==
    /\ pc = "kahn"
    /\ queue = <<>>
    /\ ~Unresolved(nodes, resolution_order)
    /\ LET lv == calculate_levels(nodes, resolution_order)
       IN /\ lv.raised
          /\ Finish(MaxOfEmpty, lv.nodes)

\* DependencyResolver(modules): a second resolver over the same module list
NewResolver ==
    /\ pc = "done"
    /\ calls < MaxCalls
    /\ nodes' = build_nodes(modules)
    /\ pc' = "idle"
    /\ UNCHANGED <<modules, in_degree, queue, resolution_order, result, calls,
                   first, graph, stats, store, response, extVars>>

Next ==
    \/ RaiseMissing
    \/ ResolveBegin
    \/ KahnStep
    \/ RaiseCycle
    \/ ReturnOrder
    \/ RaiseMaxOfEmpty
    \/ NewResolver

Spec == Init /\ [][Next]_vars

\* GraphBuilder.build_graph(layout, include_statuses) on the same module list
\* include_statuses is None (given = FALSE) or a list of statuses
BuildGraph ==
    \E layout \in Layouts, given \in BOOLEAN, include_statuses \in SUBSET Statuses :
        /\ graph.kind = "none"
        /\ ~given => include_statuses = {}
        /\ graph' = [build_graph(modules, layout, include_statuses)
                        EXCEPT !.given = given]
        /\ modules' = self_modules(modules, include_statuses)
        /\ UNCHANGED <<resolverVars, stats, store, response, extVars>>

\* generate_vis_js_graph(modules) on the same module list
GenerateVisJsGraph ==
    /\ graph.kind = "none"
    /\ graph' = generate_vis_js_graph(modules)
    /\ UNCHANGED <<modules, resolverVars, stats, store, response, extVars>>

NextGraph == BuildGraph \/ GenerateVisJsGraph

SpecGraph == InitGraph /\ [][NextGraph]_vars

\* GraphBuilder.get_statistics()
GetStatistics ==
    /\ stats' = get_statistics(modules)
    /\ UNCHANGED <<modules, resolverVars, graph, store, response, extVars>>

\* a graph builder over any module list with any statuses and types
InitStats ==
    \E n \in 0..MaxModules :
      \E refs \in RefLists(n, MaxGraphRefs), status \in [1..n -> Statuses],
         type \in [1..n -> Types] :
        Start(WithTypes(ModuleSchema(n, refs, status), type)) /\ ExtIdle

NextStats == GetStatistics

SpecStats == InitStats /\ [][NextStats]_vars

\* The resolver, the graph functions and the statistics share nothing but the
\* module list; a behaviour of SpecFrame follows one of them from construction.
NextFrame ==
    \/ (graph = NoGraph /\ stats = NoStats /\ Next)
    \/ (pc = "idle" /\ calls = 0 /\ stats = NoStats /\ NextGraph)
    \/ (pc = "idle" /\ calls = 0 /\ graph = NoGraph /\ NextStats)

SpecFrame == InitGraph /\ [][NextFrame]_vars

\* ------------------------------------------------------- REST API (backend.api)
\* The modules directory holds one file <name>.yaml per saved module; store
\* maps the name to the dictionary that save_module dumped into the file.
ApiNames == Names(MaxApiModules)

\* The type of a module whose body has no "type" key: the default of the field
\* is the enum member, which is not validated and so is not replaced by its
\* value as a type given in the body is (use_enum_values).
DefaultType == "ModuleType.service"

ApiTypes == {"service", DefaultType}

\* no handler of the API reads the status of a module
ApiStatuses == {"implemented"}

\* the modules that validate_module_yaml makes of the bodies it accepts
ApiBodies ==
    UNION {{[name |-> nm, status |-> st, type |-> ty, dependencies |-> deps] :
                    nm \in ApiNames, st \in ApiStatuses, ty \in ApiTypes,
                    deps \in [1..k -> [name : ApiNames, required : BOOLEAN]]} :
                k \in 0..MaxApiDeps}

\* yaml.safe_load of a file yaml.dump wrote: strings, booleans and lists are
\* read back as written; an enum member was written as a python/object/apply
\* node, for which safe_load has no constructor
safe_load_fails(file) == file.type = DefaultType

\* load_all_modules, lines 291-312, in the order of the names: a file that
\* safe_load fails on is skipped with a warning
load_all_modules(st) ==
    LET Loaded(nm) == nm \in DOMAIN st /\ ~safe_load_fails(st[nm])
        names == SelectSeq(Pool, Loaded)
    IN [i \in 1..Len(names) |-> st[names[i]]]

\* load_module_by_id, lines 315-321: the modules found, the first one is taken
load_module_by_id(st, module_id) ==
    LET Named(m) == m.name = module_id
    IN SelectSeq(load_all_modules(st), Named)

\* save_module, lines 324-343: the file of module.name is written, whether it
\* exists or not
save_module(st, module) ==
    [nm \in DOMAIN st \cup {module.name} |->
        IF nm = module.name THEN module ELSE st[nm]]

\* delete_module, lines 349-355
dependents(st, module_id) ==
    LET Hits(r) == r.to = module_id
        hits == SelectSeq(DeclaredRefs(load_all_modules(st)), Hits)
    IN [j \in 1..Len(hits) |-> hits[j].from]

\* delete_module, lines 360-368
unlink(st, module_id) == [nm \in DOMAIN st \ {module_id} |-> st[nm]]

Response(method, id, code) == [method |-> method, id |-> id, code |-> code]

\* POST /api/modules
CreateModule ==
    \E valid \in BOOLEAN, body \in ApiBodies :
        /\ IF ~valid
           THEN /\ response' = Response("POST", NoName, 400)
                /\ UNCHANGED <<store, modules>>
           ELSE /\ store' = save_module(store, body)
                /\ modules' = load_all_modules(store')
                /\ response' = Response("POST", body.name, 201)
        /\ UNCHANGED <<resolverVars, graph, stats, extVars>>

\* DELETE /api/modules/<module_id>
DeleteModule ==
    \E module_id \in ApiNames :
        /\ IF load_module_by_id(store, module_id) = <<>>
           THEN /\ response' = Response("DELETE", module_id, 404)
                /\ UNCHANGED <<store, modules>>
           ELSE IF dependents(store, module_id) # <<>>
           THEN /\ response' = Response("DELETE", module_id, 400)
                /\ UNCHANGED <<store, modules>>
           ELSE /\ store' = unlink(store, module_id)
                /\ modules' = load_all_modules(store')
                /\ response' = Response("DELETE", module_id, 200)
        /\ UNCHANGED <<resolverVars, graph, stats, extVars>>

\* The update_data of a PUT: the name key (NoName: no such key) and the
\* dependencies key (given or not); other keys do not decide where
\* save_module writes.
UpdateData ==
    {u \in [name : ApiNames \cup {NoName}, has_deps : BOOLEAN,
            dependencies : UNION {[1..k -> [name : ApiNames, required : BOOLEAN]] :
                                     k \in 0..MaxApiDeps}] :
        ~u.has_deps => u.dependencies = <<>>}

\* update_module, lines 188-189: module_dict.update(update_data)
Merge(existing, update_data) ==
    [existing EXCEPT
        !.name = IF update_data.name # NoName THEN update_data.name ELSE @,
        !.dependencies = IF update_data.has_deps THEN update_data.dependencies ELSE @]

\* PUT /api/modules/<module_id>; valid: validate_module_yaml accepts the
\* merged dictionary, which other keys of update_data can prevent
UpdateModule ==
    \E module_id \in ApiNames, update_data \in UpdateData, valid \in BOOLEAN :
        /\ IF load_module_by_id(store, module_id) = <<>>
           THEN /\ response' = Response("PUT", module_id, 404)
                /\ UNCHANGED <<store, modules>>
           ELSE IF ~valid
           THEN /\ response' = Response("PUT", module_id, 400)
                /\ UNCHANGED <<store, modules>>
           ELSE /\ store' = save_module(store,
                               Merge(load_module_by_id(store, module_id)[1],
                                     update_data))
                /\ modules' = load_all_modules(store')
                /\ response' = Response("PUT", module_id, 200)
        /\ UNCHANGED <<resolverVars, graph, stats, extVars>>

\* the application over an empty modules directory
InitApi == Start(<<>>) /\ ExtIdle

NextApi == CreateModule \/ UpdateModule \/ DeleteModule

SpecApi == InitApi /\ [][NextApi]_vars

\* ------------------------------------------------------------------ loader.py
\* A YAML file of the directory either fails to load or to validate (NoName)
\* or holds a valid module, of which load_modules reads the name only.
LoaderNames == {"A", "B"}

FileContents == LoaderNames \cup {NoName}

\* the directory argument: a missing path, a plain file, or a directory with
\* its *.yaml and *.yml files in the order the two globs list them
Directories ==
    {NoDirectory, [kind |-> "file", files |-> <<>>]}
    \cup UNION {{[kind |-> "dir", files |-> fs] : fs \in [1..k -> FileContents]} :
                   k \in 0..MaxFiles}

\* load_modules, line 102
IsDuplicate(names, name) == name \in names

\* the set is replaced by the name instead of growing by it
AddName_Assign(names, name) == {name}

\* load_modules, line 105
AddName(names, name) == names \cup {name}

\* load_modules, lines 77-92
LoadModulesBegin ==
    /\ loader = "idle"
    /\ IF directory.kind # "dir"
       THEN /\ loader' = "ValueError"
            /\ UNCHANGED yaml_files
       ELSE IF directory.files = <<>>
       THEN /\ loader' = "returned"
            /\ UNCHANGED yaml_files
       ELSE /\ loader' = "loop"
            /\ yaml_files' = directory.files
    /\ loader_modules' = <<>>
    /\ loader_module_names' = {}
    /\ UNCHANGED <<modules, resolverVars, graph, stats, apiVars, directory,
                   watcherVars, appVars>>

\* load_modules, lines 95-110: one iteration of the loop
LoadFile ==
    /\ loader = "loop"
    /\ yaml_files # <<>>
    /\ LET name == Head(yaml_files)
       IN IF name = NoName \/ IsDuplicate(loader_module_names, name)
          THEN /\ loader' = "exit"
               /\ UNCHANGED <<yaml_files, loader_modules, loader_module_names>>
          ELSE /\ loader_module_names' = AddName(loader_module_names, name)
               /\ loader_modules' = Append(loader_modules, name)
               /\ yaml_files' = Tail(yaml_files)
               /\ UNCHANGED loader
    /\ UNCHANGED <<modules, resolverVars, graph, stats, apiVars, directory,
                   watcherVars, appVars>>

\* load_modules, line 112
LoadModulesReturn ==
    /\ loader = "loop"
    /\ yaml_files = <<>>
    /\ loader' = "returned"
    /\ UNCHANGED <<modules, resolverVars, graph, stats, apiVars, directory,
                   yaml_files, loader_modules, loader_module_names, watcherVars, appVars>>

InitLoader ==
    /\ Start(<<>>)
    /\ \E dir \in Directories : LoaderStart(dir)
    /\ WatcherStart("watch")
    /\ AppStart(<<>>)

NextLoader == LoadModulesBegin \/ LoadFile \/ LoadModulesReturn

SpecLoader == InitLoader /\ [][NextLoader]_vars

\* ----------------------------------------------------------------- watcher.py
\* The modules directory holds valid modules throughout; version counts the
\* changes made to it, so a regeneration that loads version v has read every
\* change up to the v-th.  Time advances in instants; a thread that sleeps
\* debounce_delay wakes debounce_delay instants later or, delayed, after that.
Paths == {"m1.yaml", "m2.yaml"}

RestVars == <<modules, resolverVars, graph, stats, apiVars, loaderVars, appVars>>

\* the Observer delivers events from observer.start() on (line 191)
ObserverAlive == mode = "watch" /\ runner[MainThread].pc # "main"

Born == {r \in Threads : runner[r].pc # "unborn"}

\* line 99
DebounceElapsed(t, last) == t - last >= debounce_delay

\* _regenerate_files, lines 107-108
Proceeds(pending) == pending # {}

\* time passes
Tick ==
    /\ now < MaxTime
    /\ now' = now + 1
    /\ UNCHANGED <<RestVars, mode, version, pending_changes, last_change_time,
                   runner, output, last_loaded>>

\* WatcherManager.start, lines 175-196, and main, lines 283-286: the handler
\* is built and, unless --single-run, the observer started; the call of
\* _regenerate_files is next
Start_Main ==
    /\ runner[MainThread].pc = "main"
    /\ runner' = [runner EXCEPT ![MainThread].pc = "enter"]
    /\ UNCHANGED <<RestVars, mode, now, version, pending_changes,
                   last_change_time, output, last_loaded>>

\* a YAML file of modules_dir changes while no observer runs
ChangeUnobserved ==
    /\ ~ObserverAlive
    /\ version < MaxChanges
    /\ version' = version + 1
    /\ UNCHANGED <<RestVars, mode, now, pending_changes, last_change_time,
                   runner, output, last_loaded>>

\* a YAML file of modules_dir changes: on_modified, on_created or on_deleted
\* and _handle_change, lines 82-103
HandleChange ==
    \E file_path \in Paths :
        /\ ObserverAlive
        /\ version < MaxChanges
        /\ now + debounce_delay <= MaxTime
        /\ version' = version + 1
        /\ last_change_time' = now
        /\ pending_changes' = pending_changes \cup {file_path}
        /\ LET t == CHOOSE r \in Threads : r \notin Born /\ \A q \in Threads \ Born : r <= q
           IN runner' = [runner EXCEPT ![t] = [pc |-> "sleep",
                                              wake |-> now + debounce_delay]]
        /\ UNCHANGED <<RestVars, mode, now, output, last_loaded>>

\* delayed_regenerate, lines 98-99: the sleep is over and the test is made
Wake(r) ==
    /\ r \in Threads
    /\ runner[r].pc = "sleep"
    /\ now >= runner[r].wake
    /\ runner' = [runner EXCEPT ![r].pc =
                     IF DebounceElapsed(now, last_change_time)
                     THEN "enter" ELSE "done"]
    /\ UNCHANGED <<RestVars, mode, now, version, pending_changes,
                   last_change_time, output, last_loaded>>

\* _regenerate_files, lines 107-108
Enter(r) ==
    /\ runner[r].pc = "enter"
    /\ runner' = [runner EXCEPT ![r].pc =
                     IF Proceeds(pending_changes) THEN "load" ELSE "done"]
    /\ UNCHANGED <<RestVars, mode, now, version, pending_changes,
                   last_change_time, output, last_loaded>>

\* _regenerate_files, lines 110-145: the modules are loaded and both files
\* are written from them
Regenerate(r) ==
    /\ runner[r].pc = "load"
    /\ output' = version
    /\ last_loaded' = version
    /\ runner' = [runner EXCEPT ![r].pc = "clear"]
    /\ UNCHANGED <<RestVars, mode, now, version, pending_changes,
                   last_change_time>>

\* _regenerate_files, lines 149-150
Clear(r) ==
    /\ runner[r].pc = "clear"
    /\ pending_changes' = {}
    /\ runner' = [runner EXCEPT ![r].pc = "done"]
    /\ UNCHANGED <<RestVars, mode, now, version, last_change_time, output,
                   last_loaded>>

Step(r) == Wake(r) \/ Enter(r) \/ Regenerate(r) \/ Clear(r)

InitWatcher ==
    /\ Start(<<>>)
    /\ LoaderStart(NoDirectory)
    /\ \E m \in {"watch", "single"} : WatcherStart(m)
    /\ AppStart(<<>>)

NextWatcher ==
    \/ Tick
    \/ Start_Main
    \/ ChangeUnobserved
    \/ HandleChange
    \/ \E r \in {MainThread} \cup Threads : Step(r)

SpecWatcher == InitWatcher /\ [][NextWatcher]_vars

\* every thread that can take a step takes it, and time does not stop
FairWatcher ==
    /\ WF_vars(Tick)
    /\ WF_vars(Start_Main)
    /\ \A r \in {MainThread} \cup Threads : WF_vars(Step(r))

SpecWatcherLive == SpecWatcher /\ FairWatcher

\* --------------------------------------------------------------------- app.py
\* The modules directory exists and every file <name>.yaml in it holds a valid
\* module named <name>; of a module the handlers below read the name and the
\* dependencies.  The dictionaries are walked in the order of AppOrder: the
\* handlers test only whether detect_circular_dependencies finds a cycle,
\* which no order of the keys changes.
InvalidModule == "invalid_module"

AppOrder == SubSeq(Pool, 1, MaxAppModules) \o <<InvalidModule>>

AppNames == Range(AppOrder)

\* a name validate_module_name rejects
BadName == "../x"

AppDepLists == UNION {[1..k -> AppNames] : k \in 0..MaxAppDeps}

\* no JSON body
NoBody == [name |-> NoName, kind |-> "none", has_deps |-> FALSE, dependencies |-> <<>>]

\* The JSON bodies: the name key (NoName: no such key), the dependencies key
\* (given or not), and whether the body passes the field checks of the handler
\* ("bad_field" does not) and the schema of ModuleNode ("bad_schema" does not).
AppBodies ==
    {NoBody} \cup
    {b \in [name : AppNames \cup {NoName}, kind : {"ok", "bad_field", "bad_schema"},
            has_deps : BOOLEAN, dependencies : AppDepLists] :
        /\ ~b.has_deps => b.dependencies = <<>>
        /\ b.kind # "ok" => ~b.has_deps}

\* detect_circular_dependencies.get_dependencies, lines 100-112
get_dependencies(cache, module_name) ==
    IF module_name \in DOMAIN cache THEN cache[module_name] ELSE <<>>

\* detect_circular_dependencies.dfs, lines 114-133
RECURSIVE app_dfs(_, _, _)
RECURSIVE app_dfs_deps(_, _, _)
app_dfs(cache, node, st) ==
    LET entered == [st EXCEPT !.visited = @ \cup {node},
                              !.rec_stack = @ \cup {node},
                              !.path = Append(@, node)]
        after == app_dfs_deps(cache, get_dependencies(cache, node), entered)
    IN IF after.cycle # <<>>
       THEN after
       ELSE [after EXCEPT !.rec_stack = @ \ {node},
                          !.path = SubSeq(@, 1, Len(@) - 1)]

app_dfs_deps(cache, deps, st) ==
    IF deps = <<>> THEN st
    ELSE IF Head(deps) \notin DOMAIN cache
    THEN app_dfs_deps(cache, Tail(deps), st)
    ELSE IF Head(deps) \in st.rec_stack
    THEN [st EXCEPT !.cycle = CyclePath(st.path, Head(deps))]
    ELSE IF Head(deps) \notin st.visited
    THEN LET r == app_dfs(cache, Head(deps), st)
         IN IF r.cycle # <<>> THEN r ELSE app_dfs_deps(cache, Tail(deps), r)
    ELSE app_dfs_deps(cache, Tail(deps), st)

\* detect_circular_dependencies, lines 135-143
RECURSIVE DetectFrom(_, _, _)
DetectFrom(cache, order, visited) ==
    IF order = <<>> THEN <<>>
    ELSE IF Head(order) \in visited
    THEN DetectFrom(cache, Tail(order), visited)
    ELSE LET r == app_dfs(cache, Head(order),
                          [visited |-> visited, rec_stack |-> {},
                           path |-> <<>>, cycle |-> <<>>])
         IN IF r.cycle # <<>> THEN r.cycle
            ELSE DetectFrom(cache, Tail(order), r.visited)

detect_circular_dependencies(cache) ==
    LET Key(n) == n \in DOMAIN cache
    IN DetectFrom(cache, SelectSeq(AppOrder, Key), {})

\* check_module_dependencies, lines 58-87
check_module_dependencies(cache, module_to_delete) ==
    LET Depends(n) == /\ n \in DOMAIN cache
                      /\ n # module_to_delete
                      /\ module_to_delete \in Range(cache[n])
    IN SelectSeq(AppOrder, Depends)

\* load_module_cache, lines 146-174: invalid_module.yaml is renamed away while
\* load_modules reads the directory
load_module_cache(fs) == [n \in DOMAIN fs \ {InvalidModule} |-> fs[n]]

\* temp_cache of create_module and update_module
temp_cache(cache, name, deps) ==
    [n \in DOMAIN cache \cup {name} |-> IF n = name THEN deps ELSE cache[n]]

\* the file of a module is written
write_file(fs, name, deps) ==
    [n \in DOMAIN fs \cup {name} |-> IF n = name THEN deps ELSE fs[n]]

\* the test of update_module, line 424, left out
NameChanged_Never(module_name, body) == FALSE

\* update_module, line 424
NameChanged(module_name, body) ==
    body.name # NoName /\ body.name # module_name

AppResponse(method, name, code, body) ==
    [method |-> method, name |-> name, code |-> code,
     renames |-> method = "PUT" /\ body.name \notin {NoName, name},
     kind |-> IF method = "PUT" THEN body.kind ELSE "none"]

Rejected(method, name, code, body) ==
    /\ app_response' = AppResponse(method, name, code, body)
    /\ UNCHANGED <<files, module_cache, modules_loaded>>

Written(method, name, code, body, deps) ==
    /\ files' = write_file(files, name, deps)
    /\ module_cache' = load_module_cache(files')
    /\ modules_loaded' = TRUE
    /\ app_response' = AppResponse(method, name, code, body)

AppElsewhere == <<modules, resolverVars, graph, stats, apiVars, loaderVars, watcherVars>>

\* main, lines 591-596: the cache is loaded before the server takes requests
AppMain ==
    /\ app_response = NoAppResponse
    /\ ~modules_loaded
    /\ module_cache' = load_module_cache(files)
    /\ modules_loaded' = TRUE
    /\ UNCHANGED <<files, app_response, AppElsewhere>>

\* GET /api/modules, lines 182-204
GetModules ==
    /\ IF modules_loaded
       THEN UNCHANGED <<module_cache, modules_loaded>>
       ELSE /\ module_cache' = load_module_cache(files)
            /\ modules_loaded' = TRUE
    /\ app_response' = AppResponse("GET", NoName, 200, NoBody)
    /\ UNCHANGED <<files, AppElsewhere>>

\* POST /api/modules, lines 207-304
AppCreateModule ==
    \E body \in AppBodies :
        /\ IF body.name = NoName \/ body.kind # "ok"
           THEN Rejected("POST", body.name, 400, body)
           ELSE IF body.name \in DOMAIN files
           THEN Rejected("POST", body.name, 409, body)
           ELSE IF detect_circular_dependencies(
                       temp_cache(module_cache, body.name, body.dependencies)) # <<>>
           THEN Rejected("POST", body.name, 409, body)
           ELSE Written("POST", body.name, 201, body, body.dependencies)
        /\ UNCHANGED AppElsewhere

\* PUT /api/modules/<module_name>, lines 403-523
AppUpdateModule ==
    \E module_name \in AppNames \cup {BadName}, body \in AppBodies :
        /\ IF module_name = BadName
           THEN \* the body is not read
                body = NoBody /\ Rejected("PUT", module_name, 400, body)
           ELSE IF NameChanged(module_name, body) \/ body.kind \in {"bad_field", "none"}
           THEN Rejected("PUT", module_name, 400, body)
           ELSE IF module_name \notin DOMAIN files
           THEN Rejected("PUT", module_name, 404, body)
           ELSE IF body.kind = "bad_schema"
           THEN Rejected("PUT", module_name, 400, body)
           ELSE LET deps == IF body.has_deps THEN body.dependencies
                            ELSE files[module_name]
                IN IF detect_circular_dependencies(
                          temp_cache(module_cache, module_name, deps)) # <<>>
                   THEN Rejected("PUT", module_name, 409, body)
                   ELSE Written("PUT", module_name, 200, body, deps)
        /\ UNCHANGED AppElsewhere

\* DELETE /api/modules/<module_name>, lines 526-563
AppDeleteModule ==
    \E module_name \in AppNames \cup {BadName} :
        /\ IF module_name = BadName
           THEN Rejected("DELETE", module_name, 400, NoBody)
           ELSE IF module_name \notin DOMAIN files
           THEN Rejected("DELETE", module_name, 404, NoBody)
           ELSE IF check_module_dependencies(module_cache, module_name) # <<>>
           THEN Rejected("DELETE", module_name, 409, NoBody)
           ELSE IF detect_circular_dependencies(module_cache) # <<>>
           THEN Rejected("DELETE", module_name, 409, NoBody)
           ELSE /\ files' = [n \in DOMAIN files \ {module_name} |-> files[n]]
                /\ module_cache' = load_module_cache(files')
                /\ modules_loaded' = TRUE
                /\ app_response' = AppResponse("DELETE", module_name, 204, NoBody)
        /\ UNCHANGED AppElsewhere

\* a dependency cycle among the stored modules
StoredCycle(fs) ==
    \E S \in SUBSET (DOMAIN fs) :
        /\ S # {}
        /\ \A n \in S : Range(fs[n]) \cap S # {}

\* app.py imported over any acyclic set of stored modules
InitApp ==
    /\ Start(<<>>)
    /\ LoaderStart(NoDirectory)
    /\ WatcherStart("watch")
    /\ \E present \in SUBSET AppNames :
         \E fs \in [present -> AppDepLists] :
            ~StoredCycle(fs) /\ AppStart(fs)

NextApp ==
    \/ AppMain
    \/ GetModules
    \/ AppCreateModule
    \/ AppUpdateModule
    \/ AppDeleteModule

SpecApp == InitApp /\ [][NextApp]_vars

\* =================================================================== claims
\* Properties of an input, stated on the module records alone.
Ids(mods) == {mods[i].name : i \in 1..Len(mods)}

InputPos(mods, x) == CHOOSE i \in 1..Len(mods) : mods[i].name = x

\* y is a declared dependency of x
Declares(mods, x, y) ==
    \E i \in 1..Len(mods) :
        /\ mods[i].name = x
        /\ \E j \in 1..Len(mods[i].dependencies) : mods[i].dependencies[j].name = y

ExistingDeps(mods, x) == {y \in Ids(mods) : Declares(mods, x, y)}

RECURSIVE Closure(_, _)
Closure(mods, S) ==
    LET T == S \cup UNION {ExistingDeps(mods, x) : x \in S}
    IN IF T = S THEN S ELSE Closure(mods, T)

Reaches(mods, x) == Closure(mods, ExistingDeps(mods, x))

HasCycle(mods) == \E x \in Ids(mods) : x \in Reaches(mods, x)

RequiredMissing(mods) ==
    UNION {{<<i, j>> : j \in {k \in 1..Len(mods[i].dependencies) :
                                /\ mods[i].dependencies[k].required
                                /\ mods[i].dependencies[k].name \notin Ids(mods)}} :
           i \in 1..Len(mods)}

HasMissingRequired(mods) == RequiredMissing(mods) # {}

FirstMissing(mods) ==
    CHOOSE p \in RequiredMissing(mods) :
        \A q \in RequiredMissing(mods) :
            p[1] < q[1] \/ (p[1] = q[1] /\ p[2] <= q[2])

\* x has declared dependencies and none of them is in the input
OnlyAbsentDeps(mods, x) ==
    /\ \E y \in {Absent} : Declares(mods, x, y)
    /\ ExistingDeps(mods, x) = {}

IsPermutationOf(order, S) ==
    /\ Len(order) = Cardinality(S)
    /\ Range(order) = S

Before(order, x, y) ==
    \E i, j \in 1..Len(order) : i < j /\ order[i] = x /\ order[j] = y

\* C1: for an acyclic input whose required dependencies are all present,
\* resolve returns a permutation of the identifiers in which every present
\* dependency target stands strictly before its dependent.
C1_TopologicalOrder ==
    (pc = "done" /\ ~HasCycle(modules) /\ ~HasMissingRequired(modules))
        => /\ result.kind = "order"
           /\ IsPermutationOf(result.order, Ids(modules))
           /\ \A x, y \in Ids(modules) :
                 Declares(modules, x, y) => Before(result.order, y, x)

\* C2 as stated: every input with a dependency cycle ends in
\* CircularDependencyError.
C2_CycleAlwaysReported ==
    (pc = "done" /\ HasCycle(modules)) => result.kind = "cycle"

\* C2 amended: an input with a dependency cycle never yields an order; it ends
\* in CircularDependencyError when all required targets are present and in
\* the missing-required-dependency error otherwise.
C2_CycleNeverOrdered ==
    (pc = "done" /\ HasCycle(modules))
        => /\ result.kind # "order"
           /\ ~HasMissingRequired(modules) => result.kind = "cycle"
           /\ HasMissingRequired(modules) => result.kind = "missing"

C2_Witness ==
    /\ pc = "done"
    /\ result.kind = "cycle"
    /\ Range(result.cycle) = {"A", "B", "C"}

\* C3: a reported cycle has at least two entries, starts and ends with the
\* same identifier, and each consecutive pair is a declared dependency
\* between input identifiers.
C3_CycleIsClosedPath ==
    (pc = "done" /\ result.kind = "cycle")
        => LET c == result.cycle
           IN /\ Len(c) >= 2
              /\ c[1] = c[Len(c)]
              /\ \A i \in 1..(Len(c) - 1) :
                    /\ c[i] \in Ids(modules)
                    /\ c[i + 1] \in Ids(modules)
                    /\ Declares(modules, c[i], c[i + 1])

\* a cycle of two nodes reported although a third unresolved node leads into it
C3_Witness ==
    /\ pc = "done"
    /\ result.kind = "cycle"
    /\ Len(result.cycle) = 3
    /\ \E x \in Ids(modules) \ Range(result.cycle) :
          Declares(modules, x, result.cycle[1])

\* C4: after a successful resolve a node without existing dependencies has
\* level 0 and every other node has 1 + the maximum level of its existing
\* dependencies.
C4_LevelInvariant ==
    (pc = "done" /\ result.kind = "order")
        => \A x \in Ids(modules) :
              nodes[x].level =
                 IF ExistingDeps(modules, x) = {} THEN 0
                 ELSE 1 + Max({nodes[y].level : y \in ExistingDeps(modules, x)})

\* a chain of three nodes with levels 0, 1, 2
C4_Witness ==
    /\ pc = "done"
    /\ result.kind = "order"
    /\ Len(modules) = 3
    /\ {nodes[x].level : x \in Ids(modules)} = {0, 1, 2}

\* C5: with a required reference to an absent identifier the topological pass
\* never starts, and the call ends with the missing-required-dependency error
\* naming the first violating reference in input order, then declared order.
C5_MissingReportedFirst ==
    HasMissingRequired(modules)
        => /\ pc # "kahn"
           /\ resolution_order = <<>>
           /\ pc = "done" =>
                LET p == FirstMissing(modules)
                IN /\ result.kind = "missing"
                   /\ result.dependent = modules[p[1]].name
                   /\ result.target = modules[p[1]].dependencies[p[2]].name

\* two violating references of different modules, and a cycle as well
C5_Witness ==
    /\ pc = "done"
    /\ result.kind = "missing"
    /\ HasCycle(modules)
    /\ \E p, q \in RequiredMissing(modules) : p[1] # q[1]

\* C6: an acyclic input whose only references to absent identifiers are
\* optional resolves to an order of all identifiers, and a node all of whose
\* dependencies are absent gets level 0.
C6_DanglingOptionalResolves ==
    (/\ pc = "done"
     /\ ~HasCycle(modules)
     /\ ~HasMissingRequired(modules)
     /\ \E x \in Ids(modules) : Declares(modules, x, Absent))
        => /\ result.kind = "order"
           /\ Range(result.order) = Ids(modules)
           /\ \A x \in Ids(modules) :
                 OnlyAbsentDeps(modules, x) => nodes[x].level = 0

\* C7: a later resolve call on the same input, on the same resolver or on a
\* new one, ends like the first call: same kind, same order, same levels.
C7_SecondCallAgrees ==
    (pc = "done" /\ calls >= 2)
        => /\ result.kind = first.result.kind
           /\ result.order = first.result.order
           /\ Levels(nodes) = first.levels

C7_Witness ==
    /\ pc = "done"
    /\ calls = 2
    /\ result.kind = "order"
    /\ \E x \in Ids(modules) : nodes[x].level = 2

Emits == pc = "kahn" /\ Len(resolution_order') = Len(resolution_order) + 1

Emitted == resolution_order'[Len(resolution_order')]

Waiting == {y \in DOMAIN in_degree \ Range(resolution_order) : in_degree[y] = 0}

\* C8 as stated: the node appended to the order is, among the not yet emitted
\* nodes of in-degree zero, the earliest in input order.
C8_EarliestInputFirst ==
    [][Emits => \A y \in Waiting :
                   InputPos(modules, Emitted) <= InputPos(modules, y)]_vars

InitiallyFree(x) == ExistingDeps(modules, x) = {}

IncreasingInput(s) ==
    \A i, j \in 1..Len(s) :
        i < j => InputPos(modules, s[i]) < InputPos(modules, s[j])

\* C8 amended: the node appended is the one that has waited longest (first in,
\* first out); nodes of in-degree zero at the start are appended in input
\* order and before all others; nodes whose in-degree reaches zero during the
\* same iteration join the queue in input order.
C8_FifoWithInputOrderSeeds ==
    [][Emits =>
        /\ Emitted = Head(queue)
        /\ \A y \in Waiting \ {Emitted} :
              InitiallyFree(y) => /\ InitiallyFree(Emitted)
                                  /\ InputPos(modules, Emitted) < InputPos(modules, y)
        /\ Len(queue') >= Len(queue) - 1
        /\ SubSeq(queue', 1, Len(queue) - 1) = Tail(queue)
        /\ IncreasingInput(SubSeq(queue', Len(queue), Len(queue')))]_vars

\* two nodes wait and the one that is later in the input is first in line
C8_Witness ==
    /\ pc = "kahn"
    /\ Len(queue) >= 2
    /\ InputPos(modules, queue[1]) > InputPos(modules, queue[2])

InputOrderOf(S) ==
    LET In(x) == x \in S
    IN SelectSeq([i \in 1..Len(modules) |-> modules[i].name], In)

\* C9: the reported cycle is the first one a depth-first search finds that
\* starts from the unresolved nodes in input order.
C9_CycleFromInputOrder ==
    [][(pc = "kahn" /\ result'.kind = "cycle")
         => LET remaining == DOMAIN nodes \ Range(resolution_order)
            IN result'.cycle = find_cycle(nodes, remaining, InputOrderOf(remaining))]_vars

WorkingSet == FilterModules(modules, graph.include_statuses)

\* C10: build_graph returns a payload with every node of its working set
\* when that working set has a cycle or a missing required dependency.
C10_GraphDespiteResolverError ==
    (/\ graph.kind # "none"
     /\ graph.call = "build_graph"
     /\ HasCycle(WorkingSet) \/ HasMissingRequired(WorkingSet))
        => /\ graph.kind = "payload"
           /\ {graph.nodes[i].id : i \in 1..Len(graph.nodes)} = Ids(WorkingSet)

EmittedIds == {graph.nodes[i].id : i \in 1..Len(graph.nodes)}

LayoutAsked == graph.call = "build_graph" => graph.layout = "hierarchical"

\* C11: an emitted node carries a level only if hierarchical layout was
\* requested and the working set has neither a cycle nor a missing required
\* dependency.
C11_LevelOnlyOnSuccess ==
    graph.kind = "payload"
        => \A i \in 1..Len(graph.nodes) :
              graph.nodes[i].level # NoLevel
                 => /\ LayoutAsked
                    /\ ~HasCycle(WorkingSet)
                    /\ ~HasMissingRequired(WorkingSet)

\* the level of spec 4.2 step 4, computed on the records of an acyclic input
RECURSIVE Depth(_, _)
Depth(mods, x) ==
    IF ExistingDeps(mods, x) = {} THEN 0
    ELSE 1 + Max({Depth(mods, y) : y \in ExistingDeps(mods, x)})

\* C12: with layout hierarchical and a successful resolution every node of
\* the working set is emitted with its level: 0 without existing
\* dependencies, else 1 + the highest level among them.
C12_HierarchicalLevels ==
    (/\ graph.kind = "payload"
     /\ graph.call = "build_graph"
     /\ graph.layout = "hierarchical"
     /\ ~HasCycle(WorkingSet))
        => /\ Len(graph.nodes) = Len(WorkingSet)
           /\ \A i \in 1..Len(graph.nodes) :
                 /\ graph.nodes[i].id = WorkingSet[i].name
                 /\ graph.nodes[i].level >= 0
                 /\ graph.nodes[i].level = Depth(WorkingSet, graph.nodes[i].id)

C12_Witness ==
    /\ graph.kind = "payload"
    /\ graph.call = "build_graph"
    /\ graph.layout = "hierarchical"
    /\ {graph.nodes[i].level : i \in 1..Len(graph.nodes)} = {0, 1, 2}

\* C13: when a list of statuses is passed to build_graph, every emitted node
\* has a status of the list and every emitted edge joins emitted nodes.
C13_FilterRespected ==
    (/\ graph.kind = "payload"
     /\ graph.call = "build_graph"
     /\ graph.given)
        => /\ \A i \in 1..Len(graph.nodes) :
                 graph.nodes[i].group \in graph.include_statuses
           /\ \A k \in 1..Len(graph.edges) :
                 /\ graph.edges[k].from \in EmittedIds
                 /\ graph.edges[k].to \in EmittedIds

EdgeCount(x, y, dashed) ==
    Cardinality({k \in 1..Len(graph.edges) :
                    graph.edges[k] = [from |-> x, to |-> y, dashes |-> dashed]})

RefCount(mods, x, y, required) ==
    Cardinality(UNION {{<<i, j>> : j \in {k \in 1..Len(mods[i].dependencies) :
                                     mods[i].dependencies[k] =
                                        [name |-> y, required |-> required]}} :
                       i \in {h \in 1..Len(mods) : mods[h].name = x}})

\* C14: the payload has one edge from dependent to target per declared
\* reference whose target is in the working set, none for other references,
\* and an edge is dashed exactly when its reference is not required.
C14_EdgesMatchReferences ==
    graph.kind = "payload"
        => /\ \A k \in 1..Len(graph.edges) :
                 /\ graph.edges[k].from \in Ids(WorkingSet)
                 /\ graph.edges[k].to \in Ids(WorkingSet)
           /\ \A x, y \in Ids(WorkingSet) : \A required \in BOOLEAN :
                 EdgeCount(x, y, ~required) = RefCount(WorkingSet, x, y, required)

\* one required and one optional reference to the same module, two edges
C14_Witness ==
    /\ graph.kind = "payload"
    /\ Len(graph.edges) = 2
    /\ graph.edges[1].to = graph.edges[2].to
    /\ graph.edges[1].dashes # graph.edges[2].dashes

RECURSIVE SumOf(_)
SumOf(f) ==
    IF DOMAIN f = {} THEN 0
    ELSE LET k == CHOOSE k \in DOMAIN f : TRUE
         IN f[k] + SumOf([j \in DOMAIN f \ {k} |-> f[j]])

\* C15: get_statistics counts the modules, counts them by status and by type
\* (each summing to the total) and adds up the declared dependency
\* references, dangling ones included, on cyclic and invalid inputs too.
C15_Statistics ==
    stats.kind = "stats"
        => /\ stats.total_modules = Len(modules)
           /\ SumOf(stats.by_status) = Len(modules)
           /\ SumOf(stats.by_type) = Len(modules)
           /\ \A st \in Statuses :
                 Cardinality({i \in 1..Len(modules) : modules[i].status = st})
                    = IF st \in DOMAIN stats.by_status THEN stats.by_status[st] ELSE 0
           /\ \A ty \in Types :
                 Cardinality({i \in 1..Len(modules) : modules[i].type = ty})
                    = IF ty \in DOMAIN stats.by_type THEN stats.by_type[ty] ELSE 0
           /\ stats.dependency_count =
                 SumOf([i \in 1..Len(modules) |-> Len(modules[i].dependencies)])
           /\ pc = "idle"
           /\ result = NoResult

\* statistics of an input with a cycle and a missing required dependency
C15_Witness ==
    /\ stats.kind = "stats"
    /\ HasCycle(modules)
    /\ HasMissingRequired(modules)
    /\ stats.dependency_count = 2
    /\ Cardinality(DOMAIN stats.by_type) = 2

Occurrences(seq, x) == Cardinality({k \in 1..Len(seq) : seq[k] = x})

DeclaredNames(x) ==
    LET m == modules[InputPos(modules, x)]
    IN [j \in 1..Len(m.dependencies) |-> m.dependencies[j].name]

\* C16: in the node index b is listed among a's dependents as often as b
\* declares a, dependents stand in input order, dependencies are the declared
\* references in declared order, and a reference to an absent identifier adds
\* no dependents entry.
C16_IndexInvertsDependencies ==
    /\ DOMAIN nodes = Ids(modules)
    /\ \A a \in Ids(modules) :
          /\ nodes[a].dependencies = DeclaredNames(a)
          /\ Range(nodes[a].dependents) \subseteq Ids(modules)
          /\ \A b \in Ids(modules) :
                Occurrences(nodes[a].dependents, b) = Occurrences(DeclaredNames(b), a)
          /\ \A i, j \in 1..Len(nodes[a].dependents) :
                i < j => InputPos(modules, nodes[a].dependents[i])
                            <= InputPos(modules, nodes[a].dependents[j])

\* a node with two different dependents next to a reference to an absent one
C16_Witness ==
    /\ \E a \in Ids(modules) :
          /\ Len(nodes[a].dependents) = 2
          /\ nodes[a].dependents[1] # nodes[a].dependents[2]
    /\ \E x \in Ids(modules) : Declares(modules, x, Absent)

\* C17: on an input with a cycle or a missing required dependency resolve ends
\* in one of the two errors, returns no order and leaves every level at 0; and
\* no level is assigned while the topological pass of a first call runs.
C17_AllOrNothing ==
    /\ (pc = "done" /\ (HasCycle(modules) \/ HasMissingRequired(modules)))
          => /\ result.kind \in {"missing", "cycle"}
             /\ result.order = <<>>
             /\ \A x \in Ids(modules) : nodes[x].level = 0
    /\ (pc = "kahn" /\ calls = 0)
          => \A x \in Ids(modules) : nodes[x].level = 0

\* a cycle error after the pass had already emitted a node
C17_Witness ==
    /\ pc = "done"
    /\ result.kind = "cycle"
    /\ Len(modules) = 3
    /\ \E x \in Ids(modules) : ExistingDeps(modules, x) = {}

\* C18: no step of the resolver, of build_graph, of generate_vis_js_graph or
\* of get_statistics changes the module records, and the index covers every
\* module whatever the dependency targets are.
C18_RecordsUnchanged ==
    [][modules' = modules /\ DOMAIN nodes' = Ids(modules')]_vars

\* a filtered build over records with a reference to an absent identifier
C18_Witness ==
    /\ graph.kind = "payload"
    /\ Len(WorkingSet) < Len(modules)
    /\ \E x \in Ids(modules) : Declares(modules, x, Absent)

\* C19: a POST with the name of a stored module is answered 409 and leaves
\* the stored module as it was.
C19_CreateConflict ==
    [][(response'.method = "POST" /\ response'.id \in DOMAIN store)
          => /\ response'.code = 409
             /\ store' = store]_vars

HasDependent(st, id) ==
    \E nm \in DOMAIN st :
        \E j \in 1..Len(st[nm].dependencies) : st[nm].dependencies[j].name = id

\* C20: a DELETE of a module that some stored module declares as a dependency
\* gets an error response and removes no file, and whatever module a request
\* removes has no stored module listing it as a dependency.
C20_DeleteGuarded ==
    [][/\ (response'.method = "DELETE" /\ HasDependent(store, response'.id))
             => /\ response'.code >= 400
                /\ store' = store
       /\ \A nm \in DOMAIN store \ DOMAIN store' :
             /\ ~HasDependent(store, nm)
             /\ response' = Response("DELETE", nm, 200)
             /\ store' = [x \in DOMAIN store \ {nm} |-> store[x]]]_vars

\* C21: load_modules never returns a list with one name twice, and over a
\* directory in which two files define the same name it does not return.
C21_NoDuplicateReturned ==
    loader = "returned" =>
        /\ \A i, j \in 1..Len(loader_modules) :
              loader_modules[i] = loader_modules[j] => i = j
        /\ \A i, j \in 1..Len(directory.files) :
              (directory.files[i] = directory.files[j] /\ i # j)
                  => directory.files[i] = NoName
        /\ loader_modules = directory.files

\* the repeated name was met after another name, not next to its first file
C21_Witness ==
    /\ loader = "exit"
    /\ Len(loader_modules) = 2
    /\ yaml_files # <<>>
    /\ Head(yaml_files) = loader_modules[1]

\* C22: once WatcherManager.start or the single run has made its call of
\* _regenerate_files, with no change event observed, the output files show the
\* current contents of the modules directory.
C22_InitialGeneration ==
    [][(/\ runner[MainThread].pc # "done"
        /\ runner'[MainThread].pc = "done"
        /\ Born' = {})
          => output' = version']_vars

\* C25: a regeneration is started only when the most recent change event is
\* at least debounce_delay old.
C25_NoEarlyRegeneration ==
    [][\A r \in {MainThread} \cup Threads :
          (runner[r].pc = "enter" /\ runner'[r].pc = "load")
              => DebounceElapsed(now, last_change_time)]_vars

\* C26: every observed change is eventually followed by a regeneration that
\* loads the modules directory as it is after that change.
C26_NoChangeLost ==
    \A v \in 1..MaxChanges :
        (Born # {} /\ version = v) ~> (last_loaded >= v)

\* C23: the stored module set never contains a dependency cycle.
C23_StoreStaysAcyclic == ~StoredCycle(files)

OthersKept(name) ==
    \A n \in DOMAIN files \ {name} : n \in DOMAIN files' /\ files'[n] = files[n]

FailsEarlyChecks(resp) ==
    resp.name = BadName \/ resp.renames \/ resp.kind \in {"bad_field", "none"}

C27_UpdateChangesOnlyId ==
    [][(response'.method = "PUT" /\ response'.code = 200) =>
          /\ DOMAIN store' = DOMAIN store
          /\ \A nm \in DOMAIN store \ {response'.id} : store'[nm] = store[nm]]_vars

RemainingNodes == DOMAIN nodes \ Range(resolution_order)

IsClosedCycleIn(c, S) ==
    /\ Len(c) >= 2
    /\ c[1] = c[Len(c)]
    /\ Range(c) \subseteq S
    /\ \A i \in 1..(Len(c) - 1) : c[i + 1] \in Range(nodes[c[i]].dependencies)

\* C28: when the topological pass ends with nodes unresolved, each of them
\* has an unresolved dependency, and the cycle error that follows carries a
\* closed cycle of unresolved nodes, whatever the order of the search: never
\* the plain list of the remaining nodes.
C28_CycleAmongUnresolved ==
    [][(pc = "kahn" /\ queue = <<>> /\ Unresolved(nodes, resolution_order)) =>
          /\ \A x \in RemainingNodes :
                Range(nodes[x].dependencies) \cap RemainingNodes # {}
          /\ \A iteration \in Perms(RemainingNodes) :
                /\ find_cycle(nodes, RemainingNodes, iteration) # iteration
                /\ IsClosedCycleIn(find_cycle(nodes, RemainingNodes, iteration),
                                   RemainingNodes)
          /\ pc' = "done" =>
                /\ result'.kind = "cycle"
                /\ IsClosedCycleIn(result'.cycle, RemainingNodes)]_vars

\* a node that depends on itself reported as the cycle, another node resolved
C28_Witness ==
    /\ pc = "done"
    /\ result.kind = "cycle"
    /\ Len(result.cycle) = 2
    /\ \E x \in Ids(modules) : ExistingDeps(modules, x) = {}
    /\ \E x \in Ids(modules) \ Range(result.cycle) : ExistingDeps(modules, x) # {}

NoRepeat(s) == \A i, j \in 1..Len(s) : s[i] = s[j] => i = j

\* C29: a call of resolve dequeues each node at most once, makes at most as
\* many iterations as there are nodes, and ends in an order, a
\* missing-dependency error or a cycle error.
C29_ResolveEnds ==
    /\ pc = "kahn" =>
          /\ NoRepeat(resolution_order)
          /\ Len(resolution_order) + Len(queue) <= Cardinality(DOMAIN nodes)
    /\ pc = "done" => result.kind \in {"order", "missing", "cycle"}

\* the part of C29 about the loop: it holds on every input
C29_LoopBounded ==
    pc = "kahn" =>
        /\ NoRepeat(resolution_order)
        /\ Len(resolution_order) + Len(queue) <= Cardinality(DOMAIN nodes)

\* C30: during the topological pass no in-degree counter is negative, a node
\* is in the queue or in the order only with its counter at zero, and the
\* queue and the order together name no identifier twice and none that is
\* not in the index.
C30_KahnInvariant ==
    pc = "kahn" =>
        /\ \A x \in DOMAIN in_degree : in_degree[x] >= 0
        /\ \A x \in Range(queue) \cup Range(resolution_order) : in_degree[x] = 0
        /\ NoRepeat(resolution_order \o queue)
        /\ Range(resolution_order) \cup Range(queue) \subseteq DOMAIN nodes

\* a node with two existing dependencies is in the queue: its counter went
\* from two to zero inside the loop
C30_Witness ==
    /\ pc = "kahn"
    /\ resolution_order # <<>>
    /\ \E x \in Range(queue) : InDegree(nodes)[x] >= 2 /\ in_degree[x] = 0

====
